---- MODULE Spec2Model ----
(***************************************************************************)
(* A model of the voice-media-control listening pipeline:                  *)
(*   src/listener.py  VoiceListener (controller, capture callback, worker) *)
(*   src/commands.py  match_command, send_media_key                        *)
(*                                                                         *)
(* Three kinds of thread take steps:                                       *)
(*   - the controller thread (the tray/UI thread of src/main.py) calls     *)
(*     start/stop/pause/resume/reload_config, one call at a time; a call   *)
(*     is a sequence of steps, one per shared read or write, so that the   *)
(*     other threads interleave with it;                                   *)
(*   - the capture callback, invoked by the audio subsystem while the      *)
(*     stream is active;                                                   *)
(*   - the recognition worker threads running _process_audio.              *)
(***************************************************************************)
EXTENDS Integers, Sequences, FiniteSets, TLC

\* ------------------------------------------------------------------ bounds
\* Frames the capture device delivers in one behaviour.
MaxFrames == 2
\* Worker threads that may exist at once (a live one plus leftovers of
\* earlier sessions whose join timed out).
MaxWorkers == 2

WorkerIds == 1..MaxWorkers

\* ------------------------------------------------------- text and matching
\* A text is a sequence of one-character strings.

\* str.lower(), one character.
LowerChar(c) ==
    CASE c = "H" -> "h"
      [] c = "N" -> "n"
      [] c = "B" -> "b"
      [] c = "P" -> "p"
      [] c = "R" -> "r"
      [] OTHER -> c

\* str.lower()
StrLower(s) == [i \in 1..Len(s) |-> LowerChar(s[i])]

RECURSIVE LStrip(_)
LStrip(s) == IF s # <<>> /\ Head(s) = " " THEN LStrip(Tail(s)) ELSE s

RECURSIVE RStrip(_)
RStrip(s) ==
    IF s # <<>> /\ s[Len(s)] = " " THEN RStrip(SubSeq(s, 1, Len(s) - 1)) ELSE s

\* str.strip()
Strip(s) == RStrip(LStrip(s))

\* p in s
IsSubstr(p, s) ==
    \E i \in 0..(Len(s) - Len(p)) : SubSeq(s, i + 1, i + Len(p)) = p

\* A replace that takes out the first occurrence only, as s.replace(old, "", 1).
RECURSIVE Replace_first(_, _)
Replace_first(s, old) ==
    IF old = <<>> \/ Len(s) < Len(old) THEN s
    ELSE IF SubSeq(s, 1, Len(old)) = old
         THEN SubSeq(s, Len(old) + 1, Len(s))
         ELSE <<Head(s)>> \o Replace_first(Tail(s), old)

\* s.replace(old, ""): every non-overlapping occurrence, left to right.
RECURSIVE Replace(_, _)
Replace(s, old) ==
    IF old = <<>> \/ Len(s) < Len(old) THEN s
    ELSE IF SubSeq(s, 1, Len(old)) = old
         THEN Replace(SubSeq(s, Len(old) + 1, Len(s)), old)
         ELSE <<Head(s)>> \o Replace(Tail(s), old)

\* SearchText without the return at commands.py:53-54: a text without the
\* wake word is searched as it is.
SearchText_ungated(text, cfg) ==
    LET t == Strip(StrLower(text)) IN
    IF t = <<>> THEN [searched |-> FALSE, text |-> <<>>]
    ELSE IF cfg.wake_word_enabled
         THEN [searched |-> TRUE, text |-> Strip(Replace(t, StrLower(cfg.wake_word)))]
         ELSE [searched |-> TRUE, text |-> t]

\* The text searched for triggers (commands.py:45-56); searched = FALSE
\* stands for the early return None. The assignments to text (line 45) and
\* to wake_word (line 52) are bound as values, each computed once.
SearchText(text, cfg) ==
    LET Searched(t, wake_word) ==
            IF t = <<>> THEN [searched |-> FALSE, text |-> <<>>]
            ELSE IF cfg.wake_word_enabled
                 THEN IF ~IsSubstr(wake_word, t)
                      THEN [searched |-> FALSE, text |-> <<>>]
                      ELSE [searched |-> TRUE, text |-> Strip(Replace(t, wake_word))]
                 ELSE [searched |-> TRUE, text |-> t]
    IN CHOOSE r \in {Searched(t, wake_word) : t \in {Strip(StrLower(text))},
                                            wake_word \in {StrLower(cfg.wake_word)}} : TRUE

\* A search that lets the last matching action win.
RECURSIVE FirstAction_last(_, _)
FirstAction_last(commands, t) ==
    IF commands = <<>> THEN "none"
    ELSE IF \E k \in 1..Len(commands[Len(commands)].triggers) :
                IsSubstr(StrLower(commands[Len(commands)].triggers[k]), t)
         THEN commands[Len(commands)].action
         ELSE FirstAction_last(SubSeq(commands, 1, Len(commands) - 1), t)

\* The first action, in declaration order, one of whose triggers occurs in
\* the text (commands.py:59-66); "none" stands for None.
RECURSIVE FirstAction(_, _)
FirstAction(commands, t) ==
    IF commands = <<>> THEN "none"
    ELSE IF \E k \in 1..Len(Head(commands).triggers) :
                IsSubstr(StrLower(Head(commands).triggers[k]), t)
         THEN Head(commands).action
         ELSE FirstAction(Tail(commands), t)

\* commands.py:34-66; the searched text is bound as a value, computed once.
match_command(text, cfg) ==
    CHOOSE action \in {IF ~t.searched THEN "none" ELSE FirstAction(cfg.commands, t.text) :
                         t \in {SearchText(text, cfg)}} : TRUE

\* MEDIA_KEYS (commands.py:11-16); "nokey" stands for a missing entry.
MEDIA_KEYS(action) ==
    CASE action = "next" -> "media_next"
      [] action = "back" -> "media_previous"
      [] action = "pause" -> "media_play_pause"
      [] action = "play" -> "media_play_pause"
      [] OTHER -> "nokey"

\* A send_media_key that releases the key in a finally clause: the release
\* is sent although the press has failed.
send_media_key_releases(action, pressOk, releaseOk) ==
    LET key == MEDIA_KEYS(action) IN
    IF key = "nokey" THEN [events |-> <<>>, ret |-> FALSE]
    ELSE IF ~pressOk THEN [events |-> << <<"release", key>> >>, ret |-> FALSE]
    ELSE IF ~releaseOk THEN [events |-> << <<"press", key>> >>, ret |-> FALSE]
    ELSE [events |-> << <<"press", key>>, <<"release", key>> >>, ret |-> TRUE]

\* send_media_key(action): the key events sent and the value returned, given
\* whether the two injection calls succeed.
send_media_key(action, pressOk, releaseOk) ==
    LET key == MEDIA_KEYS(action) IN
    IF key = "nokey" THEN [events |-> <<>>, ret |-> FALSE]
    ELSE IF ~pressOk THEN [events |-> <<>>, ret |-> FALSE]
    ELSE IF ~releaseOk THEN [events |-> << <<"press", key>> >>, ret |-> FALSE]
    ELSE [events |-> << <<"press", key>>, <<"release", key>> >>, ret |-> TRUE]

\* ---------------------------------------------------------- configurations
\* DEFAULT_CONFIG of config.py, with one-letter phrases: the wake word is
\* "h", the first trigger of each action its initial ("r" for resume).
DefaultConfig ==
    [wake_word_enabled |-> TRUE,
     wake_word |-> <<"h">>,
     commands |-> << [action |-> "next", triggers |-> << <<"n">> >>],
                     [action |-> "back", triggers |-> << <<"b">> >>],
                     [action |-> "pause", triggers |-> << <<"p">> >>],
                     [action |-> "play", triggers |-> << <<"r">> >>] >>]

\* A configuration saved from the settings window (settings.py:262-281 keeps
\* the four actions in their order): the wake word is off, the trigger "n"
\* has moved from next to back, play has no trigger left.
EditedConfig ==
    [wake_word_enabled |-> FALSE,
     wake_word |-> <<"h">>,
     commands |-> << [action |-> "next", triggers |-> << >>],
                     [action |-> "back", triggers |-> << <<"n">> >>],
                     [action |-> "pause", triggers |-> << <<"p">> >>],
                     [action |-> "play", triggers |-> << >>] >>]

Configs == {DefaultConfig, EditedConfig}

\* Texts the recognition engine may report for a finalized utterance.
EngineTexts == { <<"h", " ", "n">>, <<"N">> }

\* ------------------------------------- inputs of the two functions on their own
\* The longest text given to match_command.
MaxTextLen == 3

\* The characters of a text: the letters of the wake word and of two triggers,
\* an upper-case letter and the blank.
Alphabet == {"h", "H", "n", "b", " "}

Texts == UNION {[1..k -> Alphabet] : k \in 0..MaxTextLen}

\* Values of config["wake_word"]: a word, the same in upper case (a config
\* file edited by hand), a word that ends in a trigger, and the empty entry
\* that settings.py:267 saves as it is.
WakeWords == { <<"h">>, <<"H">>, <<"h", "n">>, <<>> }

\* A command table whose triggers overlap: a trigger in upper case, a longer
\* trigger that holds it for a later action, the wake word itself as a trigger.
OverlapCommands ==
    << [action |-> "next", triggers |-> << <<"N">> >>],
       [action |-> "back", triggers |-> << <<"b", "n">>, <<"h">> >>],
       [action |-> "pause", triggers |-> << <<"n">> >>],
       [action |-> "play", triggers |-> << <<"b">> >>] >>

CommandTables == {DefaultConfig.commands, EditedConfig.commands, OverlapCommands}

\* The config argument of match_command.
PureConfigs ==
    {[wake_word_enabled |-> e, wake_word |-> ww, commands |-> c] :
        e \in BOOLEAN, ww \in WakeWords, c \in CommandTables}

\* The action argument of send_media_key: the keys of MEDIA_KEYS and a name
\* that is not one.
DispatchActions == {"next", "back", "pause", "play", "volume"}

\* ------------------------------------------------------------------- state
VARIABLES
    config,       \* self.config
    model,        \* self.model: "none" or "loaded"
    recognizer,   \* self.recognizer: "none" or "loaded"
    stream,       \* self.stream: "none", "created" (opened, not started), "open"
    audio_queue,  \* self.audio_queue: the queued frames, oldest first
    running,      \* self._running
    paused,       \* self._paused
    thread,       \* self._thread: a worker id, 0 for None
    workers,      \* the worker threads: position and locals of _process_audio
    ctl,          \* position of the controller thread inside its current call
    \* history, written but never read by the program
    lastCall,     \* the controller call in progress, or the last one made
    pre,          \* the running and paused flags when that call began
    ret,          \* what that call returned
    callStatus,   \* on_status values delivered by that call
    callErrors,   \* on_error notifications delivered by that call
    callSpawned,  \* worker threads spawned by that call
    callFault,    \* what failed in the environment during that call
    lastStatus,   \* the most recent on_status value
    nextFrame,    \* the next frame the capture device delivers
    lastFed,      \* the frame passed to recognizer.AcceptWaveform last, 0 for none
    \* one call of match_command or send_media_key, made on its own
    pureCall,     \* the function called and its arguments
    pureResult    \* what the call returned, once it has returned

progVars == <<config, model, recognizer, stream, audio_queue, running, paused, thread>>
callVars == <<lastCall, pre, ret, callStatus, callErrors, callSpawned, callFault>>
histVars == <<lastStatus, nextFrame, lastFed>>
listenerVars == <<progVars, workers, ctl, callVars, histVars>>
pureVars == <<pureCall, pureResult>>
vars == <<listenerVars, pureVars>>

\* What send_media_key leaves behind before it has been called.
NoSend == [events |-> <<>>, ret |-> FALSE]

\* No call of a function on its own, and the calls that can be made.
NoPureCall ==
    [fn |-> "none", text |-> <<>>, config |-> DefaultConfig, action |-> "none",
     pressOk |-> FALSE, releaseOk |-> FALSE]

\* pressOk and releaseOk: whether keyboard.press and keyboard.release succeed.
MatchCalls ==
    {[fn |-> "match_command", text |-> t, config |-> c, action |-> "none",
      pressOk |-> FALSE, releaseOk |-> FALSE] : t \in Texts, c \in PureConfigs}

DispatchCalls ==
    {[fn |-> "send_media_key", text |-> <<>>, config |-> DefaultConfig, action |-> a,
      pressOk |-> p, releaseOk |-> r] : a \in DispatchActions, p \in BOOLEAN, r \in BOOLEAN}

\* The call has not returned.
NoPureResult == [done |-> FALSE, action |-> "none", sent |-> NoSend]

\* The locals of _process_audio and _handle_recognition, not yet assigned.
\* poppedPaused is history: whether the paused flag was set when data was popped.
NoLocals ==
    [data |-> 0, poppedPaused |-> FALSE, text |-> <<>>, action |-> "none",
     sent |-> NoSend]

\* A thread that was never started, and one at the top of _process_audio.
\* exc is the exception that ended the thread; reported is history: whether
\* the thread has called self.on_error.
NoWorker == [pc |-> "none", exc |-> "none", reported |-> FALSE, loc |-> NoLocals]
NewWorker == [pc |-> "loop", exc |-> "none", reported |-> FALSE, loc |-> NoLocals]

\* threading.Thread.is_alive()
is_alive(w) == workers[w].pc \notin {"none", "done", "crashed"}

AliveWorkers == {w \in WorkerIds : is_alive(w)}

\* VoiceListener.is_running(), is_paused()
is_running == running
is_paused == paused

\* VoiceListener.__init__, with the callbacks of main.py:45-50 installed.
Init ==
    /\ config = DefaultConfig
    /\ model = "none"
    /\ recognizer = "none"
    /\ stream = "none"
    /\ audio_queue = <<>>
    /\ running = FALSE
    /\ paused = FALSE
    /\ thread = 0
    /\ workers = [w \in WorkerIds |-> NoWorker]
    /\ ctl = "idle"
    /\ lastCall = "init"
    /\ pre = [running |-> FALSE, paused |-> FALSE]
    /\ ret = "none"
    /\ callStatus = <<>>
    /\ callErrors = 0
    /\ callSpawned = 0
    /\ callFault = "none"
    /\ lastStatus = "none"
    /\ nextFrame = 1
    /\ lastFed = 0
    /\ pureCall = NoPureCall
    /\ pureResult = NoPureResult

\* ------------------------------------------------------- controller: calls
\* The controller thread enters a call: the history of the call starts over.
Enter(name) ==
    /\ ctl = "idle"
    /\ lastCall' = name
    /\ pre' = [running |-> running, paused |-> paused]
    /\ callStatus' = <<>>
    /\ callErrors' = 0
    /\ callSpawned' = 0
    /\ callFault' = "none"

\* The call returns value v.
Return(v) ==
    /\ ctl' = "idle"
    /\ ret' = v

\* self.on_status(s)
OnStatus(s) ==
    /\ callStatus' = Append(callStatus, s)
    /\ lastStatus' = s

\* self.on_error(msg)
OnError(msg) == callErrors' = callErrors + 1

\* ------------------------------------------------------------------ start()
\* Start_check without the test of line 120: every start() loads and opens.
Start_check_unguarded ==
    /\ Enter("start")
    /\ \E w \in WorkerIds : ~is_alive(w)
    /\ ctl' = "start_load"
    /\ ret' = "pending"
    /\ UNCHANGED <<progVars, workers, histVars>>
    /\ UNCHANGED pureVars

\* listener.py:120: if self._running. The call is entered only while a
\* thread slot is free for it to spawn into.
Start_check ==
    /\ Enter("start")
    /\ running \/ \E w \in WorkerIds : ~is_alive(w)
    /\ ctl' = (IF running THEN "start_noop" ELSE "start_load")
    /\ ret' = "pending"
    /\ UNCHANGED <<progVars, workers, histVars>>
    /\ UNCHANGED pureVars

\* listener.py:121: return True
Start_noop ==
    /\ ctl = "start_noop"
    /\ Return("true")
    /\ UNCHANGED <<progVars, workers, histVars>>
    /\ UNCHANGED <<lastCall, pre, callStatus, callErrors, callSpawned, callFault>>
    /\ UNCHANGED pureVars

\* listener.py:57-79 _load_model: the model directory is missing, Model()
\* raises, KaldiRecognizer() raises, or both are built.
Start_load ==
    /\ ctl = "start_load"
    /\ \E outcome \in {"missing", "model_raises", "recognizer_raises", "ok"} :
         /\ model' = (IF outcome \in {"recognizer_raises", "ok"} THEN "loaded" ELSE model)
         /\ recognizer' = (IF outcome = "ok" THEN "loaded" ELSE recognizer)
         /\ IF outcome = "ok"
            THEN /\ ctl' = "start_open"
                 /\ UNCHANGED <<ret, callErrors, callFault>>
            ELSE /\ callFault' = outcome
                 /\ OnError(IF outcome = "missing" THEN "model not found"
                                                   ELSE "failed to load model")
                 /\ Return("false")
    /\ UNCHANGED <<config, stream, audio_queue, running, paused, thread, workers>>
    /\ UNCHANGED <<lastCall, pre, callStatus, callSpawned>>
    /\ UNCHANGED histVars
    /\ UNCHANGED pureVars

\* Start_open whose handler reports the failure and forgets to return.
Start_open_falls_through ==
    /\ ctl = "start_open"
    /\ \E outcome \in {"open_raises", "start_raises", "ok"} :
         /\ stream' = (CASE outcome = "open_raises" -> stream
                         [] outcome = "start_raises" -> "created"
                         [] OTHER -> "open")
         /\ ctl' = "start_run"
         /\ IF outcome = "ok"
            THEN UNCHANGED <<callErrors, callFault>>
            ELSE callFault' = outcome /\ OnError("failed to open microphone")
    /\ UNCHANGED <<config, model, recognizer, audio_queue, running, paused, thread, workers>>
    /\ UNCHANGED <<lastCall, pre, ret, callStatus, callSpawned>>
    /\ UNCHANGED histVars
    /\ UNCHANGED pureVars

\* listener.py:129-145: RawInputStream() raises, stream.start() raises after
\* the handle was stored, or the stream is delivering.
Start_open ==
    /\ ctl = "start_open"
    /\ \E outcome \in {"open_raises", "start_raises", "ok"} :
         /\ stream' = (CASE outcome = "open_raises" -> stream
                         [] outcome = "start_raises" -> "created"
                         [] OTHER -> "open")
         /\ IF outcome = "ok"
            THEN /\ ctl' = "start_run"
                 /\ UNCHANGED <<ret, callErrors, callFault>>
            ELSE /\ callFault' = outcome
                 /\ OnError("failed to open microphone")
                 /\ Return("false")
    /\ UNCHANGED <<config, model, recognizer, audio_queue, running, paused, thread, workers>>
    /\ UNCHANGED <<lastCall, pre, callStatus, callSpawned>>
    /\ UNCHANGED histVars
    /\ UNCHANGED pureVars

\* listener.py:147
Start_run ==
    /\ ctl = "start_run"
    /\ running' = TRUE
    /\ ctl' = "start_unpause"
    /\ UNCHANGED <<config, model, recognizer, stream, audio_queue, paused, thread>>
    /\ UNCHANGED <<workers, callVars, histVars>>
    /\ UNCHANGED pureVars

\* Start_unpause that leaves the flag of an earlier pause() in place.
Start_unpause_keeps_flag ==
    /\ ctl = "start_unpause"
    /\ ctl' = "start_spawn"
    /\ UNCHANGED <<progVars, workers, callVars, histVars>>
    /\ UNCHANGED pureVars

\* listener.py:148
Start_unpause ==
    /\ ctl = "start_unpause"
    /\ paused' = FALSE
    /\ ctl' = "start_spawn"
    /\ UNCHANGED <<config, model, recognizer, stream, audio_queue, running, thread>>
    /\ UNCHANGED <<workers, callVars, histVars>>
    /\ UNCHANGED pureVars

\* listener.py:149-150: a new thread runs _process_audio.
Start_spawn ==
    /\ ctl = "start_spawn"
    /\ LET w == CHOOSE x \in WorkerIds : ~is_alive(x) IN
         /\ thread' = w
         /\ workers' = [workers EXCEPT ![w] = NewWorker]
    /\ callSpawned' = callSpawned + 1
    /\ ctl' = "start_status"
    /\ UNCHANGED <<config, model, recognizer, stream, audio_queue, running, paused>>
    /\ UNCHANGED <<lastCall, pre, ret, callStatus, callErrors, callFault, histVars>>
    /\ UNCHANGED pureVars

\* listener.py:152-155
Start_status ==
    /\ ctl = "start_status"
    /\ OnStatus("listening")
    /\ Return("true")
    /\ UNCHANGED <<progVars, workers>>
    /\ UNCHANGED <<lastCall, pre, callErrors, callSpawned, callFault>>
    /\ UNCHANGED <<nextFrame, lastFed>>
    /\ UNCHANGED pureVars

\* ------------------------------------------------------------------- stop()
\* listener.py:159
Stop_clear ==
    /\ Enter("stop")
    /\ running' = FALSE
    /\ ctl' = "stop_stream"
    /\ ret' = "pending"
    /\ UNCHANGED <<config, model, recognizer, stream, audio_queue, paused, thread>>
    /\ UNCHANGED <<workers, histVars>>
    /\ UNCHANGED pureVars

\* Stop_stream without the try/except of lines 162-166: the exception of
\* stream.stop() leaves stop().
Stop_stream_uncaught ==
    /\ ctl = "stop_stream"
    /\ IF stream # "none"
       THEN \E closeOk \in BOOLEAN :
              IF closeOk
              THEN stream' = "none" /\ ctl' = "stop_join" /\ UNCHANGED ret
              ELSE UNCHANGED stream /\ Return("raised")
       ELSE UNCHANGED <<stream, ret>> /\ ctl' = "stop_join"
    /\ UNCHANGED <<config, model, recognizer, audio_queue, running, paused, thread>>
    /\ UNCHANGED <<workers, histVars>>
    /\ UNCHANGED <<lastCall, pre, callStatus, callErrors, callSpawned, callFault>>
    /\ UNCHANGED pureVars

\* listener.py:161-167: stream.stop() and stream.close(), either of which
\* may raise (closeOk = FALSE); the handler logs a warning, and the handle is
\* dropped in both cases.
Stop_stream ==
    /\ ctl = "stop_stream"
    /\ IF stream # "none"
       THEN \E closeOk \in BOOLEAN : stream' = "none"
       ELSE UNCHANGED stream
    /\ ctl' = "stop_join"
    /\ UNCHANGED <<config, model, recognizer, audio_queue, running, paused, thread>>
    /\ UNCHANGED <<workers, callVars, histVars>>
    /\ UNCHANGED pureVars

\* A worker inside a call into the recognition engine, the key sink or the
\* caller's on_command may stay there longer than the join's 2 s. Anywhere
\* else it is back at the loop test within the 0.5 s of get(timeout=0.5).
MayOutlastJoin(w) == workers[w].pc \in {"in_feed", "send", "notify"}

\* listener.py:169-170: join(timeout=2.0) returns when the thread has ended
\* or when the timeout expires.
Stop_join ==
    /\ ctl = "stop_join"
    /\ \/ thread = 0
       \/ thread # 0 /\ ~is_alive(thread)
       \/ thread # 0 /\ is_alive(thread) /\ MayOutlastJoin(thread)
    /\ ctl' = "stop_model"
    /\ UNCHANGED <<progVars, workers, callVars, histVars>>
    /\ UNCHANGED pureVars

\* listener.py:172
Stop_model ==
    /\ ctl = "stop_model"
    /\ model' = "none"
    /\ ctl' = "stop_recognizer"
    /\ UNCHANGED <<config, recognizer, stream, audio_queue, running, paused, thread>>
    /\ UNCHANGED <<workers, callVars, histVars>>
    /\ UNCHANGED pureVars

\* listener.py:173
Stop_recognizer ==
    /\ ctl = "stop_recognizer"
    /\ recognizer' = "none"
    /\ ctl' = "stop_drain"
    /\ UNCHANGED <<config, model, stream, audio_queue, running, paused, thread>>
    /\ UNCHANGED <<workers, callVars, histVars>>
    /\ UNCHANGED pureVars

\* listener.py:175-182: get_nowait() until the queue is empty. The stream is
\* closed by now, so nothing is put meanwhile.
Stop_drain ==
    /\ ctl = "stop_drain"
    /\ audio_queue' = <<>>
    /\ Return("none")
    /\ UNCHANGED <<config, model, recognizer, stream, running, paused, thread>>
    /\ UNCHANGED <<workers, histVars>>
    /\ UNCHANGED <<lastCall, pre, callStatus, callErrors, callSpawned, callFault>>
    /\ UNCHANGED pureVars

\* -------------------------------------------------------- pause(), resume()
\* Pause_set that also stops the capture stream.
Pause_set_closes_stream ==
    /\ Enter("pause")
    /\ paused' = TRUE
    /\ stream' = "none"
    /\ ctl' = "pause_status"
    /\ ret' = "pending"
    /\ UNCHANGED <<config, model, recognizer, audio_queue, running, thread>>
    /\ UNCHANGED <<workers, histVars>>
    /\ UNCHANGED pureVars

\* listener.py:186
Pause_set ==
    /\ Enter("pause")
    /\ paused' = TRUE
    /\ ctl' = "pause_status"
    /\ ret' = "pending"
    /\ UNCHANGED <<config, model, recognizer, stream, audio_queue, running, thread>>
    /\ UNCHANGED <<workers, histVars>>
    /\ UNCHANGED pureVars

\* Pause_status that reports only a change of state.
Pause_status_dedup ==
    /\ ctl = "pause_status"
    /\ IF pre.paused THEN UNCHANGED <<callStatus, lastStatus>> ELSE OnStatus("paused")
    /\ Return("none")
    /\ UNCHANGED <<progVars, workers>>
    /\ UNCHANGED <<lastCall, pre, callErrors, callSpawned, callFault>>
    /\ UNCHANGED <<nextFrame, lastFed>>
    /\ UNCHANGED pureVars

\* listener.py:188-189
Pause_status ==
    /\ ctl = "pause_status"
    /\ OnStatus("paused")
    /\ Return("none")
    /\ UNCHANGED <<progVars, workers>>
    /\ UNCHANGED <<lastCall, pre, callErrors, callSpawned, callFault>>
    /\ UNCHANGED <<nextFrame, lastFed>>
    /\ UNCHANGED pureVars

\* Resume_set that also throws away the audio queued so far.
Resume_set_flushes ==
    /\ Enter("resume")
    /\ paused' = FALSE
    /\ audio_queue' = <<>>
    /\ ctl' = "resume_status"
    /\ ret' = "pending"
    /\ UNCHANGED <<config, model, recognizer, stream, running, thread>>
    /\ UNCHANGED <<workers, histVars>>
    /\ UNCHANGED pureVars

\* listener.py:193
Resume_set ==
    /\ Enter("resume")
    /\ paused' = FALSE
    /\ ctl' = "resume_status"
    /\ ret' = "pending"
    /\ UNCHANGED <<config, model, recognizer, stream, audio_queue, running, thread>>
    /\ UNCHANGED <<workers, histVars>>
    /\ UNCHANGED pureVars

\* listener.py:195-196
Resume_status ==
    /\ ctl = "resume_status"
    /\ OnStatus("listening")
    /\ Return("none")
    /\ UNCHANGED <<progVars, workers>>
    /\ UNCHANGED <<lastCall, pre, callErrors, callSpawned, callFault>>
    /\ UNCHANGED <<nextFrame, lastFed>>
    /\ UNCHANGED pureVars

\* ----------------------------------------------------------- reload_config
\* Reload_set that also takes the listener out of a pause.
Reload_set_unpauses ==
    /\ Enter("reload_config")
    /\ \E c \in Configs : config' = c
    /\ paused' = FALSE
    /\ ctl' = "reload_log"
    /\ ret' = "pending"
    /\ UNCHANGED <<model, recognizer, stream, audio_queue, running, thread>>
    /\ UNCHANGED <<workers, histVars>>
    /\ UNCHANGED pureVars

\* listener.py:208, called with the configuration the settings window saved.
Reload_set ==
    /\ Enter("reload_config")
    /\ \E c \in Configs : config' = c
    /\ ctl' = "reload_log"
    /\ ret' = "pending"
    /\ UNCHANGED <<model, recognizer, stream, audio_queue, running, paused, thread>>
    /\ UNCHANGED <<workers, histVars>>
    /\ UNCHANGED pureVars

\* listener.py:209
Reload_log ==
    /\ ctl = "reload_log"
    /\ Return("none")
    /\ UNCHANGED <<progVars, workers, histVars>>
    /\ UNCHANGED <<lastCall, pre, callStatus, callErrors, callSpawned, callFault>>
    /\ UNCHANGED pureVars

\* --------------------------------------------------------- capture callback
\* An _audio_callback without the test of self._paused: every frame is queued.
audio_callback_buffers ==
    /\ stream = "open"
    /\ nextFrame <= MaxFrames
    /\ audio_queue' = Append(audio_queue, nextFrame)
    /\ nextFrame' = nextFrame + 1
    /\ UNCHANGED <<config, model, recognizer, stream, running, paused, thread>>
    /\ UNCHANGED <<workers, ctl, callVars>>
    /\ UNCHANGED <<lastStatus, lastFed>>
    /\ UNCHANGED pureVars

\* listener.py:81-86 _audio_callback, invoked while the stream is active.
audio_callback ==
    /\ stream = "open"
    /\ nextFrame <= MaxFrames
    /\ audio_queue' = (IF ~paused THEN Append(audio_queue, nextFrame) ELSE audio_queue)
    /\ nextFrame' = nextFrame + 1
    /\ UNCHANGED <<config, model, recognizer, stream, running, paused, thread>>
    /\ UNCHANGED <<workers, ctl, callVars>>
    /\ UNCHANGED <<lastStatus, lastFed>>
    /\ UNCHANGED pureVars

\* ------------------------------------------------------- recognition worker
\* Worker w goes back to the loop test. The locals of the iteration are dead;
\* a local is put back to its unassigned value as soon as nothing reads it.
Continue(w) == workers' = [workers EXCEPT ![w] = NewWorker]

\* The loop ends and the thread with it.
Exit(w) == workers' = [workers EXCEPT ![w] = [NewWorker EXCEPT !.pc = "done"]]

\* An exception leaves _process_audio: nothing catches it, the thread ends.
Die(w, exc) ==
    workers' = [workers EXCEPT ![w] = [NewWorker EXCEPT !.pc = "crashed", !.exc = exc]]

\* listener.py:90: while self._running
Worker_loop(w) ==
    /\ workers[w].pc = "loop"
    /\ IF running
       THEN workers' = [workers EXCEPT ![w].pc = "get"]
       ELSE Exit(w)
    /\ UNCHANGED <<progVars, ctl, callVars, histVars>>
    /\ UNCHANGED pureVars

\* Worker_get around a get() without timeout: the thread waits until a frame
\* is there.
Worker_get_blocking(w) ==
    /\ workers[w].pc = "get"
    /\ audio_queue # <<>>
    /\ workers' = [workers EXCEPT ![w].pc = "chk_paused",
                                  ![w].loc.data = Head(audio_queue),
                                  ![w].loc.poppedPaused = paused]
    /\ audio_queue' = Tail(audio_queue)
    /\ UNCHANGED <<config, model, recognizer, stream, running, paused, thread>>
    /\ UNCHANGED <<ctl, callVars>>
    /\ UNCHANGED histVars
    /\ UNCHANGED pureVars

\* listener.py:91-94: get(timeout=0.5) returns the oldest frame, or raises
\* queue.Empty after the timeout.
Worker_get(w) ==
    /\ workers[w].pc = "get"
    /\ IF audio_queue # <<>>
       THEN /\ workers' = [workers EXCEPT ![w].pc = "chk_paused",
                                          ![w].loc.data = Head(audio_queue),
                                          ![w].loc.poppedPaused = paused]
            /\ audio_queue' = Tail(audio_queue)
       ELSE /\ Continue(w)
            /\ UNCHANGED audio_queue
    /\ UNCHANGED <<config, model, recognizer, stream, running, paused, thread>>
    /\ UNCHANGED <<ctl, callVars>>
    /\ UNCHANGED histVars
    /\ UNCHANGED pureVars

\* listener.py:96-97
Worker_chk_paused(w) ==
    /\ workers[w].pc = "chk_paused"
    /\ IF paused
       THEN Continue(w)
       ELSE workers' = [workers EXCEPT ![w].pc = "feed"]
    /\ UNCHANGED <<progVars, ctl, callVars, histVars>>
    /\ UNCHANGED pureVars

\* listener.py:99: self.recognizer.AcceptWaveform(data) is entered; on None
\* the attribute lookup raises AttributeError.
Worker_feed(w) ==
    /\ workers[w].pc = "feed"
    /\ IF recognizer = "none"
       THEN /\ Die(w, "attribute")
            /\ UNCHANGED lastFed
       ELSE /\ workers' = [workers EXCEPT ![w].pc = "in_feed", ![w].loc = NoLocals]
            /\ lastFed' = workers[w].loc.data
    /\ UNCHANGED <<progVars, ctl, callVars>>
    /\ UNCHANGED <<lastStatus, nextFrame>>
    /\ UNCHANGED pureVars

\* listener.py:99, 105-107: AcceptWaveform raises, or returns False (partial
\* result) or True (the utterance is final).
Worker_in_feed(w) ==
    /\ workers[w].pc = "in_feed"
    /\ \E outcome \in {"raises", "partial", "final"} :
         CASE outcome = "raises" -> Die(w, "engine")
           [] outcome = "partial" -> Continue(w)
           [] OTHER -> workers' = [workers EXCEPT ![w].pc = "result"]
    /\ UNCHANGED <<progVars, ctl, callVars, histVars>>
    /\ UNCHANGED pureVars

\* listener.py:100-104: self.recognizer.Result() and its "text".
Worker_result(w) ==
    /\ workers[w].pc = "result"
    /\ IF recognizer = "none"
       THEN Die(w, "attribute")
       ELSE \E text \in EngineTexts \cup {<<>>} :
              IF text # <<>>
              THEN workers' = [workers EXCEPT ![w].pc = "handle", ![w].loc.text = text]
              ELSE Continue(w)
    /\ UNCHANGED <<progVars, ctl, callVars, histVars>>
    /\ UNCHANGED pureVars

\* Worker_handle that matches against the triggers it found when the listener
\* was built and only takes the wake-word settings from self.config.
Worker_handle_stale(w) ==
    /\ workers[w].pc = "handle"
    /\ LET action == match_command(workers[w].loc.text,
                                   [config EXCEPT !.commands = DefaultConfig.commands]) IN
         IF action # "none"
         THEN workers' = [workers EXCEPT ![w].pc = "send",
                                         ![w].loc = [NoLocals EXCEPT !.action = action]]
         ELSE Continue(w)
    /\ UNCHANGED <<progVars, ctl, callVars, histVars>>
    /\ UNCHANGED pureVars

\* Worker_handle that leaves out send_media_key: a match goes straight to
\* the on_command callback.
Worker_handle_skips_send(w) ==
    /\ workers[w].pc = "handle"
    /\ LET action == match_command(workers[w].loc.text, config) IN
         IF action # "none"
         THEN workers' = [workers EXCEPT ![w].pc = "notify",
                                         ![w].loc = [NoLocals EXCEPT !.action = action]]
         ELSE Continue(w)
    /\ UNCHANGED <<progVars, ctl, callVars, histVars>>
    /\ UNCHANGED pureVars

\* listener.py:111-112 _handle_recognition: match against self.config.
Worker_handle(w) ==
    /\ workers[w].pc = "handle"
    /\ LET action == match_command(workers[w].loc.text, config) IN
         IF action # "none"
         THEN workers' = [workers EXCEPT ![w].pc = "send",
                                         ![w].loc = [NoLocals EXCEPT !.action = action]]
         ELSE Continue(w)
    /\ UNCHANGED <<progVars, ctl, callVars, histVars>>
    /\ UNCHANGED pureVars

\* Worker_send around a send_media_key that lets the injection error out:
\* the exception ends the thread.
Worker_send_fatal(w) ==
    /\ workers[w].pc = "send"
    /\ \E pressOk, releaseOk \in BOOLEAN :
         LET sent == send_media_key(workers[w].loc.action, pressOk, releaseOk) IN
           IF sent.ret
           THEN workers' = [workers EXCEPT ![w].pc = "notify", ![w].loc.sent = sent]
           ELSE Die(w, "dispatch")
    /\ UNCHANGED <<progVars, ctl, callVars, histVars>>
    /\ UNCHANGED pureVars

\* listener.py:114: send_media_key(action); its result is not looked at.
Worker_send(w) ==
    /\ workers[w].pc = "send"
    /\ \E pressOk, releaseOk \in BOOLEAN :
         workers' = [workers EXCEPT
                       ![w].pc = "notify",
                       ![w].loc.sent = send_media_key(workers[w].loc.action, pressOk, releaseOk)]
    /\ UNCHANGED <<progVars, ctl, callVars, histVars>>
    /\ UNCHANGED pureVars

\* listener.py:115-116: self.on_command(action), then back to the loop test.
Worker_notify(w) ==
    /\ workers[w].pc = "notify"
    /\ Continue(w)
    /\ UNCHANGED <<progVars, ctl, callVars, histVars>>
    /\ UNCHANGED pureVars

\* ------------------------------------------------------------ specification
Next ==
    \/ Start_check
    \/ Start_noop
    \/ Start_load
    \/ Start_open
    \/ Start_run
    \/ Start_unpause
    \/ Start_spawn
    \/ Start_status
    \/ Stop_clear
    \/ Stop_stream
    \/ Stop_join
    \/ Stop_model
    \/ Stop_recognizer
    \/ Stop_drain
    \/ Pause_set
    \/ Pause_status
    \/ Resume_set
    \/ Resume_status
    \/ Reload_set
    \/ Reload_log
    \/ audio_callback
    \/ \E w \in WorkerIds : Worker_loop(w)
    \/ \E w \in WorkerIds : Worker_get(w)
    \/ \E w \in WorkerIds : Worker_chk_paused(w)
    \/ \E w \in WorkerIds : Worker_feed(w)
    \/ \E w \in WorkerIds : Worker_in_feed(w)
    \/ \E w \in WorkerIds : Worker_result(w)
    \/ \E w \in WorkerIds : Worker_handle(w)
    \/ \E w \in WorkerIds : Worker_send(w)
    \/ \E w \in WorkerIds : Worker_notify(w)

Spec == Init /\ [][Next]_vars

\* ------------------------------------------------------------ scheduling
\* A step of worker thread w, whichever it is.
WorkerStep(w) ==
    \/ Worker_loop(w)
    \/ Worker_get(w)
    \/ Worker_chk_paused(w)
    \/ Worker_feed(w)
    \/ Worker_in_feed(w)
    \/ Worker_result(w)
    \/ Worker_handle(w)
    \/ Worker_send(w)
    \/ Worker_notify(w)

\* The scheduler runs every thread that is started and not finished; a worker
\* is never blocked for good: get returns after 0.5 s at the latest, and the
\* calls into the engine, the key sink and on_command are taken to return.
FairSpec == Spec /\ \A w \in WorkerIds : WF_vars(WorkerStep(w))

\* ------------------------------------------- the two functions on their own
\* One call of match_command or of send_media_key with arguments of the
\* sets above; the listener is as constructed and takes no step.
PureInit ==
    /\ pureCall \in MatchCalls \cup DispatchCalls
    /\ pureResult = NoPureResult
    /\ config = DefaultConfig
    /\ model = "none"
    /\ recognizer = "none"
    /\ stream = "none"
    /\ audio_queue = <<>>
    /\ running = FALSE
    /\ paused = FALSE
    /\ thread = 0
    /\ workers = [w \in WorkerIds |-> NoWorker]
    /\ ctl = "idle"
    /\ lastCall = "init"
    /\ pre = [running |-> FALSE, paused |-> FALSE]
    /\ ret = "none"
    /\ callStatus = <<>>
    /\ callErrors = 0
    /\ callSpawned = 0
    /\ callFault = "none"
    /\ lastStatus = "none"
    /\ nextFrame = 1
    /\ lastFed = 0

\* commands.py:34-66
Call_match_command ==
    /\ pureCall.fn = "match_command"
    /\ ~pureResult.done
    /\ pureResult' = [done |-> TRUE,
                      action |-> match_command(pureCall.text, pureCall.config),
                      sent |-> NoSend]
    /\ UNCHANGED <<pureCall, listenerVars>>

\* commands.py:19-31
Call_send_media_key ==
    /\ pureCall.fn = "send_media_key"
    /\ ~pureResult.done
    /\ pureResult' = [done |-> TRUE,
                      action |-> "none",
                      sent |-> send_media_key(pureCall.action, pureCall.pressOk,
                                              pureCall.releaseOk)]
    /\ UNCHANGED <<pureCall, listenerVars>>

PureNext ==
    \/ Call_match_command
    \/ Call_send_media_key

PureSpec == PureInit /\ [][PureNext]_vars

\* ------------------------------------------------------------------ claims
\* A step of the controller thread: every one moves its position.
CtlStep == ctl' # ctl

\* Worker w enters recognizer.AcceptWaveform in this step.
FeedStep(w) == workers[w].pc = "feed" /\ workers'[w].pc = "in_feed"

\* Worker w completes send_media_key in this step.
SendStep(w) == workers[w].pc = "send" /\ workers'[w].pc = "notify"

\* C1: once stop() has returned, from whatever state it was called, the
\* running flag is false, the stream handle, the engine and the recognizer
\* are released and the frame queue is empty; stop() returned normally.
C1_StopLeavesStopped ==
    (ctl = "idle" /\ lastCall = "stop") =>
        /\ ~running
        /\ stream = "none"
        /\ model = "none"
        /\ recognizer = "none"
        /\ audio_queue = <<>>
        /\ ret = "none"

\* stop() has returned for the second time since the session began, on a
\* listener that was already stopped and still has the paused flag set and
\* a worker thread alive.
C1_Witness ==
    /\ ctl = "idle"
    /\ lastCall = "stop"
    /\ ~pre.running
    /\ paused
    /\ thread # 0
    /\ is_alive(thread)

\* C2: a worker that ended on an exception of the recognition engine has
\* called on_error.
C2_EngineErrorReported ==
    \A w \in WorkerIds : workers[w].exc = "engine" => workers[w].reported

\* C3: once the session's worker has ended on an engine error, the listener
\* is not running any more, so start() is never answered as a no-op.
C3_RuntimeErrorStops ==
    (thread # 0 /\ workers[thread].exc = "engine") => ctl # "start_noop"

\* C4: after stop() has cleared the running flag, no worker enters
\* AcceptWaveform and none sends a key.
C4_NoWorkAfterStop ==
    [][(lastCall = "stop" /\ ~running) =>
          \A w \in WorkerIds : ~FeedStep(w) /\ ~SendStep(w)]_vars

\* C5: start() on a running listener (Listening or Paused) goes straight to
\* its return of True: no step of it changes a field of the listener, a
\* thread or the queue, and it invokes no callback; the engine is loaded and
\* the stream opened only by a start() that found the listener not running.
C5_StartWhileRunningIsNoop ==
    /\ [](ctl \in {"start_load", "start_open", "start_run"} => ~running)
    /\ [][(CtlStep /\ lastCall' = "start" /\ pre'.running) =>
            /\ UNCHANGED <<progVars, workers, histVars>>
            /\ callStatus' = <<>>
            /\ callErrors' = 0
            /\ callSpawned' = 0
            /\ ctl' \in {"start_noop", "idle"}
            /\ ctl' = "idle" => ret' = "true"]_vars

\* start() is about to return from a paused listener whose worker is alive.
C5_Witness ==
    /\ ctl = "start_noop"
    /\ paused
    /\ thread # 0
    /\ is_alive(thread)
    /\ audio_queue # <<>>

\* C6: a start() during which loading the engine or opening the stream
\* failed has returned False, called on_error exactly once, spawned no
\* thread, sent no status and left the running flag false; and start()
\* returns False only so.
C6_StartupFailure ==
    /\ (lastCall = "start" /\ callFault # "none") =>
          /\ ctl = "idle"
          /\ ret = "false"
          /\ callErrors = 1
          /\ callSpawned = 0
          /\ callStatus = <<>>
          /\ ~running
    /\ (lastCall = "start" /\ ctl = "idle" /\ ret = "false") =>
          /\ callFault # "none"
          /\ callErrors = 1

\* start() has failed on stream.start(), after the engine was loaded.
C6_Witness ==
    /\ lastCall = "start"
    /\ ctl = "idle"
    /\ callFault = "start_raises"
    /\ ret = "false"
    /\ recognizer = "loaded"

\* C7: a start() that found the listener stopped and met no failure has,
\* when it returns, set the running flag, cleared the paused flag, spawned
\* exactly one worker, sent "listening" exactly once and returned True; the
\* worker is spawned with the running flag already set.
C7_SuccessfulStart ==
    /\ (ctl = "idle" /\ lastCall = "start" /\ ~pre.running /\ callFault = "none") =>
          /\ running
          /\ ~paused
          /\ callSpawned = 1
          /\ thread # 0
          /\ callStatus = <<"listening">>
          /\ callErrors = 0
          /\ ret = "true"
    /\ (ctl = "start_spawn" \/ (lastCall = "start" /\ callSpawned > 0)) => running

\* start() has succeeded although pause() had been called before it.
C7_Witness ==
    /\ ctl = "idle"
    /\ lastCall = "start"
    /\ ~pre.running
    /\ pre.paused
    /\ callFault = "none"
    /\ ret = "true"

\* C8 as stated: resume() on a listening listener invokes no status callback.
C8_ResumeListeningSilent ==
    (ctl = "idle" /\ lastCall = "resume" /\ pre.running /\ ~pre.paused) =>
        callStatus = <<>>

\* C8 as amended: resume() on a listening listener changes no field of the
\* listener, no thread and not the queue, and sends "listening" exactly once.
C8_ResumeListening ==
    /\ []((ctl = "idle" /\ lastCall = "resume" /\ pre.running /\ ~pre.paused) =>
            /\ running
            /\ ~paused
            /\ callStatus = <<"listening">>
            /\ lastStatus = "listening"
            /\ callErrors = 0
            /\ callSpawned = 0
            /\ ret = "none")
    /\ [][(CtlStep /\ lastCall' = "resume" /\ pre'.running /\ ~pre'.paused) =>
            UNCHANGED <<progVars, workers, nextFrame, lastFed>>]_vars

\* resume() has returned on a listener that was listening, with its worker
\* alive and a frame queued.
C8_Witness ==
    /\ ctl = "idle"
    /\ lastCall = "resume"
    /\ pre.running
    /\ ~pre.paused
    /\ is_alive(thread)
    /\ audio_queue # <<>>

\* C9: every pause() that has returned left the paused flag set and sent
\* "paused" exactly once, also the one that found the listener paused; on a
\* running listener the state is Paused.
C9_PauseTwice ==
    (ctl = "idle" /\ lastCall = "pause") =>
        /\ paused
        /\ callStatus = <<"paused">>
        /\ lastStatus = "paused"
        /\ pre.running => running

\* pause() has returned on a listener that was already Paused.
C9_Witness ==
    /\ ctl = "idle"
    /\ lastCall = "pause"
    /\ pre.running
    /\ pre.paused
    /\ running
    /\ paused

\* C10: no step of pause() changes the stream, a worker thread, the running
\* flag, the engine, the configuration or the queue.
C10_PauseFrame ==
    [][(CtlStep /\ lastCall' = "pause") =>
          /\ UNCHANGED <<config, model, recognizer, stream, audio_queue, running, thread>>
          /\ UNCHANGED workers]_vars

\* pause() has returned: the stream is open, the worker alive, a frame queued.
C10_Witness ==
    /\ ctl = "idle"
    /\ lastCall = "pause"
    /\ paused
    /\ running
    /\ stream = "open"
    /\ is_alive(thread)
    /\ audio_queue # <<>>

\* C11: no step of reload_config() changes the running or paused flag, a
\* worker thread, the stream, the engine or the queue, and none invokes a
\* callback; it is entered from any state of the listener.
C11_ReloadFrame ==
    [][(CtlStep /\ lastCall' = "reload_config") =>
          /\ UNCHANGED <<model, recognizer, stream, audio_queue, running, paused, thread>>
          /\ UNCHANGED workers
          /\ UNCHANGED lastStatus
          /\ callStatus' = <<>>
          /\ callErrors' = 0
          /\ callSpawned' = 0]_vars

\* reload_config() has returned on a paused listener with a live worker and
\* a queued frame, and the configuration is the new one.
C11_Witness ==
    /\ ctl = "idle"
    /\ lastCall = "reload_config"
    /\ config = EditedConfig
    /\ running
    /\ paused
    /\ is_alive(thread)
    /\ audio_queue # <<>>

\* Worker w matches its utterance in this step.
HandleStep(w) == workers[w].pc = "handle" /\ workers'[w].pc # "handle"

\* C12: an utterance is matched against the configuration self.config holds
\* when the match is made, wake-word settings and triggers alike: against
\* the new one once reload_config() has stored it, whatever the worker was
\* doing meanwhile, and never against parts of two configurations.
C12_MatchUsesCurrentConfig ==
    [][\A w \in WorkerIds :
         HandleStep(w) =>
           LET action == match_command(workers[w].loc.text, config) IN
             IF action = "none"
             THEN workers'[w].pc = "loop"
             ELSE /\ workers'[w].pc = "send"
                  /\ workers'[w].loc.action = action]_vars

\* After a reload_config() during the session, an utterance without the wake
\* word has matched back, which only the new configuration yields.
C12_Witness ==
    /\ lastCall = "reload_config"
    /\ config = EditedConfig
    /\ running
    /\ \E w \in WorkerIds : workers[w].pc = "send" /\ workers[w].loc.action = "back"

\* C13: a send_media_key that returns False changes no field of the
\* listener; the worker that made it goes on to the loop test, alive; and a
\* worker calls send_media_key only straight after a match, so once for an
\* utterance.
C13_DispatchFailureLocal ==
    [][\A w \in WorkerIds :
         /\ workers[w].pc = "send" /\ workers'[w] # workers[w] =>
              /\ SendStep(w)
              /\ UNCHANGED progVars
         /\ (workers[w].pc = "notify" /\ ~workers[w].loc.sent.ret
               /\ workers'[w] # workers[w]) =>
              /\ workers'[w].pc = "loop"
              /\ UNCHANGED progVars
         /\ (workers'[w].pc = "send" /\ workers[w].pc # "send") =>
              workers[w].pc = "handle"]_vars

\* A dispatch has just failed on a listening listener, and the next frame
\* waits in the queue.
C13_Witness ==
    /\ running
    /\ ~paused
    /\ audio_queue # <<>>
    /\ \E w \in WorkerIds :
         /\ workers[w].pc = "notify"
         /\ ~workers[w].loc.sent.ret
         /\ thread = w

\* C14: the frame queue has a capacity: it never holds every frame the
\* capture callback has delivered when the callback delivers MaxFrames of them
\* and no worker takes one.
C14_QueueBounded == Len(audio_queue) < MaxFrames

\* match_command has returned; its arguments, and the text after
\* text.lower().strip().
MatchReturned == pureCall.fn = "match_command" /\ pureResult.done
NormalText == Strip(StrLower(pureCall.text))
WakeWord == StrLower(pureCall.config.wake_word)

\* Action i of the configured table has a trigger that occurs in t.
Hit(i, t) ==
    \E k \in 1..Len(pureCall.config.commands[i].triggers) :
       IsSubstr(StrLower(pureCall.config.commands[i].triggers[k]), t)

\* C15: with the wake word enabled, match_command returns None for a text
\* that does not contain the lower-cased wake word, whatever triggers it
\* contains; and it returns None for a text of blanks only, the empty one
\* included.
C15_WakeWordGate ==
    MatchReturned =>
        /\ (/\ pureCall.config.wake_word_enabled
            /\ ~IsSubstr(WakeWord, StrLower(pureCall.text)))
              => pureResult.action = "none"
        /\ (\A i \in 1..Len(pureCall.text) : pureCall.text[i] = " ")
              => pureResult.action = "none"

\* The wake word is enabled and missing from a text that holds a trigger of
\* the configured table; the call returned None.
C15_Witness ==
    /\ MatchReturned
    /\ pureCall.config.wake_word_enabled
    /\ ~IsSubstr(WakeWord, StrLower(pureCall.text))
    /\ \E i \in 1..Len(pureCall.config.commands) : Hit(i, StrLower(pureCall.text))
    /\ pureResult.action = "none"

\* Where old occurs first in s, counted from 0.
FirstOccurrence(s, old) ==
    CHOOSE i \in 0..(Len(s) - Len(old)) :
        /\ SubSeq(s, i + 1, i + Len(old)) = old
        /\ \A j \in 0..(i - 1) : SubSeq(s, j + 1, j + Len(old)) # old

\* s without the first occurrence of old.
RemoveFirstOccurrence(s, old) ==
    IF ~IsSubstr(old, s) THEN s
    ELSE LET i == FirstOccurrence(s, old) IN
         SubSeq(s, 1, i) \o SubSeq(s, i + Len(old) + 1, Len(s))

\* s without the occurrences of old found one after the other, each search
\* starting behind the occurrence before.
RECURSIVE RemoveEveryOccurrence(_, _)
RemoveEveryOccurrence(s, old) ==
    IF old = <<>> \/ ~IsSubstr(old, s) THEN s
    ELSE LET i == FirstOccurrence(s, old) IN
         SubSeq(s, 1, i) \o RemoveEveryOccurrence(SubSeq(s, i + Len(old) + 1, Len(s)), old)

\* C16 as stated: with the wake word enabled and present, the text searched
\* for triggers is the text without the first occurrence of the wake word,
\* trimmed; a later occurrence is still there to match a trigger.
C16_FirstOccurrenceOnly ==
    (/\ MatchReturned
     /\ pureCall.config.wake_word_enabled
     /\ IsSubstr(WakeWord, NormalText))
      => pureResult.action =
           FirstAction(pureCall.config.commands,
                       Strip(RemoveFirstOccurrence(NormalText, WakeWord)))

\* C16: with the wake word enabled and present, the text searched for
\* triggers is the text without every occurrence of the wake word, found
\* left to right without overlap, trimmed; an occurrence of the wake word
\* that was in the text matches no trigger.
C16_EveryOccurrenceRemoved ==
    (/\ MatchReturned
     /\ pureCall.config.wake_word_enabled
     /\ IsSubstr(WakeWord, NormalText))
      => pureResult.action =
           FirstAction(pureCall.config.commands,
                       Strip(RemoveEveryOccurrence(NormalText, WakeWord)))

\* The wake word is in the text twice and is a trigger itself: with the
\* second occurrence left in, an action would match; the call returned None.
C16_Witness ==
    /\ MatchReturned
    /\ pureCall.config.wake_word_enabled
    /\ IsSubstr(WakeWord, NormalText)
    /\ FirstAction(pureCall.config.commands,
                   Strip(RemoveFirstOccurrence(NormalText, WakeWord))) # "none"
    /\ pureResult.action = "none"

\* C17: when match_command searches a text, it returns the action that comes
\* first in the configured table among those with a trigger occurring in the
\* searched text, wherever the triggers occur and however long they are; it
\* returns None exactly when no trigger of the table occurs in it.
C17_FirstInDeclarationOrder ==
    (MatchReturned /\ SearchText(pureCall.text, pureCall.config).searched) =>
        LET t == SearchText(pureCall.text, pureCall.config).text
            commands == pureCall.config.commands
        IN /\ pureResult.action = "none" <=> \A i \in 1..Len(commands) : ~Hit(i, t)
           /\ \A i \in 1..Len(commands) :
                (Hit(i, t) /\ \A j \in 1..(i - 1) : ~Hit(j, t))
                   => pureResult.action = commands[i].action

\* Two actions have a trigger in the searched text, and the trigger of the
\* later one is the longer and starts the text; the call returned the earlier.
C17_Witness ==
    /\ MatchReturned
    /\ SearchText(pureCall.text, pureCall.config).searched
    /\ LET t == SearchText(pureCall.text, pureCall.config).text
           commands == pureCall.config.commands
       IN \E i, j \in 1..Len(commands) :
            /\ i < j
            /\ pureResult.action = commands[i].action
            /\ \E k \in 1..Len(commands[j].triggers) :
                 LET tj == StrLower(commands[j].triggers[k]) IN
                   /\ Len(tj) <= Len(t)
                   /\ SubSeq(t, 1, Len(tj)) = tj
                   /\ \A m \in 1..Len(commands[i].triggers) :
                        /\ Len(commands[i].triggers[m]) < Len(tj)
                        /\ SubSeq(t, 1, Len(commands[i].triggers[m]))
                             # StrLower(commands[i].triggers[m])

\* send_media_key has returned.
DispatchReturned == pureCall.fn = "send_media_key" /\ pureResult.done

\* C18: send_media_key(action) returns True after a press and then a release
\* of the key of the action, the play/pause key for both pause and play; when
\* the action has no key or the press fails it returns False and no event has
\* been sent; when the release fails it returns False and nothing follows the
\* press. It returns a value in every case.
C18_Dispatch ==
    DispatchReturned =>
        LET action == pureCall.action
            key == CASE action = "next" -> "media_next"
                     [] action = "back" -> "media_previous"
                     [] action \in {"pause", "play"} -> "media_play_pause"
                     [] OTHER -> "nokey"
            sent == pureResult.sent
        IN /\ sent.ret \in BOOLEAN
           /\ sent.ret <=> (key # "nokey" /\ pureCall.pressOk /\ pureCall.releaseOk)
           /\ sent.ret => sent.events = << <<"press", key>>, <<"release", key>> >>
           /\ (key = "nokey" \/ ~pureCall.pressOk) => sent.events = <<>>
           /\ (key # "nokey" /\ pureCall.pressOk /\ ~pureCall.releaseOk)
                 => sent.events = << <<"press", key>> >>

\* send_media_key("play") has returned False after a press of the play/pause
\* key whose release failed.
C18_Witness ==
    /\ DispatchReturned
    /\ pureCall.action = "play"
    /\ pureCall.pressOk
    /\ ~pureCall.releaseOk
    /\ pureResult.sent = [events |-> << <<"press", "media_play_pause">> >>, ret |-> FALSE]

C20_PoppedWhilePausedNotFed ==
    [][\A w \in WorkerIds : FeedStep(w) => ~workers[w].loc.poppedPaused]_vars

\* The capture device delivers a frame in this step.
DeliverStep == nextFrame' # nextFrame

\* C20: what decides is the paused flag at the worker's test after the pop
\* (listener.py:96): with the flag set there the frame is dropped and the
\* worker is back at the loop test, with it clear the frame goes to
\* AcceptWaveform, and nothing else leads there. A frame delivered while the
\* flag is set enters no queue and no thread: the queue grows only by the
\* frame delivered in the same step, with the flag clear, and a worker gets a
\* frame only from the head of the queue; so that frame is never fed.
C20_PausedFramesDropped ==
    [][/\ \A w \in WorkerIds :
            /\ (workers[w].pc = "chk_paused" /\ workers'[w] # workers[w]) =>
                  IF paused
                  THEN workers'[w] = NewWorker /\ lastFed' = lastFed
                  ELSE workers'[w].pc = "feed"
                       /\ workers'[w].loc.data = workers[w].loc.data
            /\ (workers'[w].pc = "feed" /\ workers[w].pc # "feed") =>
                  workers[w].pc = "chk_paused" /\ ~paused
            /\ FeedStep(w) => lastFed' = workers[w].loc.data
            /\ (workers'[w].loc.data # workers[w].loc.data /\ workers'[w].loc.data # 0) =>
                  /\ audio_queue # <<>>
                  /\ workers'[w].loc.data = Head(audio_queue)
                  /\ audio_queue' = Tail(audio_queue)
       /\ lastFed' # lastFed => \E w \in WorkerIds : FeedStep(w)
       /\ (DeliverStep /\ paused) => UNCHANGED <<audio_queue, workers, lastFed>>
       /\ Len(audio_queue') > Len(audio_queue) =>
             /\ DeliverStep
             /\ ~paused
             /\ audio_queue' = Append(audio_queue, nextFrame)]_vars

\* pause() has returned on a listening listener whose stream stays open and
\* whose worker is alive; the capture device has delivered two frames, none
\* is in the queue or in a thread, and none has been passed to AcceptWaveform.
C20_Witness ==
    /\ running
    /\ paused
    /\ ctl = "idle"
    /\ lastCall = "pause"
    /\ pre.running
    /\ ~pre.paused
    /\ stream = "open"
    /\ is_alive(thread)
    /\ nextFrame > 2
    /\ lastFed = 0
    /\ audio_queue = <<>>
    /\ \A w \in WorkerIds : workers[w].loc.data = 0

\* Worker w comes to position pc in this step, from the position it names.
Enters(w, pc) == workers'[w].pc = pc /\ workers[w].pc # pc

\* Worker w leaves position pc in this step.
Leaves(w, pc) == workers[w].pc = pc /\ workers'[w] # workers[w]

\* C21: send_media_key is called only straight after a match, once, with the
\* action matched; on_command is called only straight after send_media_key
\* has returned, once, with the same action, and the worker is back at the
\* loop test after it. match_command is called only for a final result
\* with a non-empty text; a partial result, an empty text and a text without
\* a match lead back to the loop test with neither call made.
C21_DispatchThenNotify ==
    [][\A w \in WorkerIds :
         /\ Enters(w, "handle") =>
              /\ workers[w].pc = "result"
              /\ workers'[w].loc.text # <<>>
         /\ Enters(w, "result") => workers[w].pc = "in_feed"
         /\ Leaves(w, "in_feed") => workers'[w].pc \in {"result", "loop", "crashed"}
         /\ Leaves(w, "result") => workers'[w].pc \in {"handle", "loop", "crashed"}
         /\ Leaves(w, "handle") =>
              LET action == match_command(workers[w].loc.text, config) IN
                IF action = "none"
                THEN workers'[w] = NewWorker
                ELSE /\ workers'[w].pc = "send"
                     /\ workers'[w].loc.action = action
         /\ Enters(w, "send") => workers[w].pc = "handle"
         /\ Leaves(w, "send") =>
              /\ workers'[w].pc = "notify"
              /\ workers'[w].loc.action = workers[w].loc.action
              /\ \E pressOk, releaseOk \in BOOLEAN :
                   workers'[w].loc.sent =
                      send_media_key(workers[w].loc.action, pressOk, releaseOk)
         /\ Enters(w, "notify") => workers[w].pc = "send"
         /\ Leaves(w, "notify") => workers'[w] = NewWorker]_vars

\* A worker is inside on_command("next"), after a send_media_key("next") that
\* has pressed and released the key.
C21_Witness ==
    \E w \in WorkerIds :
       /\ workers[w].pc = "notify"
       /\ workers[w].loc.action = "next"
       /\ workers[w].loc.sent =
             [events |-> << <<"press", "media_next">>, <<"release", "media_next">> >>,
              ret |-> TRUE]

\* start() has opened a session and returned True, and the controller has
\* made no call since: the session has seen no pause() and no stop().
FreshSession ==
    /\ ctl = "idle"
    /\ lastCall = "start"
    /\ ret = "true"
    /\ ~pre.running
    /\ running
    /\ ~paused

\* C22, no loss: a frame that the callback has queued in a session without
\* pause() and stop() is passed to AcceptWaveform, as long as the session
\* goes on without either.
C22_EveryFrameFed ==
    \A f \in 1..MaxFrames :
       (FreshSession /\ \E i \in 1..Len(audio_queue) : audio_queue[i] = f)
          ~> (lastFed = f \/ ~FreshSession)

\* C23: at most one thread running _process_audio is alive.
C23_OneWorkerAlive == Cardinality(AliveWorkers) <= 1

\* C24: a worker calls self.recognizer.AcceptWaveform (listener.py:99) and
\* self.recognizer.Result (listener.py:100) only while the recognizer is held.
C24_NoUseAfterRelease ==
    [][\A w \in WorkerIds :
         (Leaves(w, "feed") \/ Leaves(w, "result")) => recognizer = "loaded"]_vars

\* C25: while a running listener is paused and pause() has returned as the
\* last call made, no worker completes send_media_key and none completes
\* on_command.
C25_NoCommandWhilePaused ==
    [][(ctl = "idle" /\ lastCall = "pause" /\ running /\ paused) =>
          \A w \in WorkerIds : ~SendStep(w) /\ ~Leaves(w, "notify")]_vars

\* C26: between calls, a running listener has "paused" as its most recent
\* status exactly when the paused flag is set and "listening" otherwise; and
\* on_status is invoked only on a running listener.
C26_StatusFollowsState ==
    /\ []((ctl = "idle" /\ running) =>
            lastStatus = (IF paused THEN "paused" ELSE "listening"))
    /\ [][Len(callStatus') > Len(callStatus) => running]_vars

====
